---- MODULE Spec2Model ----
(***************************************************************************)
(* Model of src/prompt_utils.py and src/examples/chat_examples.py: the     *)
(* helper functions and example templates that build prompts with          *)
(* langchain_core's PromptTemplate, ChatPromptTemplate and                 *)
(* MessagesPlaceholder.                                                    *)
(*                                                                         *)
(* The library's part is modelled by what langchain_core does with these   *)
(* calls: PromptTemplate formats with string.Formatter; from_messages      *)
(* keeps a message object as it is and declares no input variable for it;  *)
(* invoke checks the input against the input variables and then formats;   *)
(* MessagesPlaceholder takes a list, converts its items to messages and    *)
(* keeps the last n_messages of them.                                      *)
(*                                                                         *)
(* A text is a sequence of tokens; a token is a brace "{" or "}" or a      *)
(* brace-free chunk of characters.  The formatter only ever distinguishes  *)
(* braces from other characters, so a chunk stands for its characters.     *)
(***************************************************************************)
EXTENDS Integers, Sequences, FiniteSets, TLC

VARIABLES pending, last, seen

vars == <<pending, last, seen>>

\* Longest template_string handed to create_simple_prompt.
MaxLen == 5
\* Longest history list handed to a MessagesPlaceholder.
MaxHistory == 4
\* Largest n_messages of a MessagesPlaceholder.
MaxLimit == 3
\* Longest history list in the specification that compares two calls.
MaxCallHistory == 1

---------------------------------------------------------------------------
(* Values of a variable mapping (a Python dict / **kwargs).                *)

Keys == {"x", "topic", "company", "product", "issue", "history", "question"}

\* The text of a key, as it would appear between braces in a template.
Spell ==
    [k \in Keys |-> <<k>>]

Absent == [tag |-> "absent", text |-> <<>>, num |-> 0, items |-> <<>>]

Text(s) == [tag |-> "str", text |-> s, num |-> 0, items |-> <<>>]

Num(n) == [tag |-> "int", text |-> <<>>, num |-> n, items |-> <<>>]

List(items) == [tag |-> "list", text |-> <<>>, num |-> 0, items |-> items]

\* A message object: SystemMessage / HumanMessage / AIMessage (.type, .content).
Message(role, content) == [kind |-> "message", role |-> role, content |-> content]

SystemMessage(content) == Message("system", content)

HumanMessage(content) == Message("human", content)

AIMessage(content) == Message("ai", content)

\* A bare Python str placed in a history list instead of a message object.
BareStr(content) == [kind |-> "str", role |-> "", content |-> content]

NoVariables == [k \in Keys |-> Absent]

\* Every mapping that gives each key k of ks one of the values choice[k],
\* and no other key.
Mappings(ks, choice) ==
    {[k \in Keys |-> IF k \in ks THEN f[k] ELSE Absent] :
        f \in {g \in [ks -> UNION {choice[k] : k \in ks}] :
                   \A k \in ks : g[k] \in choice[k]}}

SeqsUpTo(S, n) == UNION {[1..k -> S] : k \in 0..n}

---------------------------------------------------------------------------
(* Results: what the caller gets, a return value or a raised exception.    *)

Return(text, messages) ==
    [status |-> "ok", name |-> <<>>, reason |-> "",
     text |-> text, messages |-> messages]

\* Mutant of Raise: the exception is caught and the accumulator returned with it.
ReturnPartial(exc, name, reason, partial) ==
    [status |-> exc, name |-> name, reason |-> reason,
     text |-> IF partial.text THEN partial.value ELSE <<>>,
     messages |-> IF partial.text THEN <<>> ELSE partial.value]

\* An exception unwinds the frames: the callee's local accumulator
\* (`partial`) is dropped and the caller receives the exception only.
Raise(exc, name, reason, partial) ==
    [status |-> exc, name |-> name, reason |-> reason,
     text |-> <<>>, messages |-> <<>>]

PartialText(t) == [text |-> TRUE, value |-> t]

PartialMessages(m) == [text |-> FALSE, value |-> m]

---------------------------------------------------------------------------
(* string.Formatter, as PromptTemplate (template_format "f-string") uses   *)
(* it: Formatter().parse in from_template, Formatter.vformat in format.    *)

IsBrace(c) == c \in {"{", "}"}

\* Mutant of IsEscape: a doubled brace is not an escape.
NeverEscape(s, j) == FALSE

\* The brace at j (not the last token) is doubled: "{{" or "}}".
IsEscape(s, j) == s[j + 1] = s[j]

RECURSIVE FindBrace(_, _)
\* The index of the first brace of s at or after i; Len(s) + 1 if none.
FindBrace(s, i) ==
    IF i > Len(s) THEN i
    ELSE IF IsBrace(s[i]) THEN i
    ELSE FindBrace(s, i + 1)

RECURSIVE ParseField(_, _, _)
\* The field name that starts at `start`, scanned from i up to its "}".
ParseField(s, start, i) ==
    IF i > Len(s)
    THEN [reason |-> "expected '}' before end of string",
          field_name |-> <<>>, next |-> i]
    ELSE IF s[i] = "{"
    THEN [reason |-> "unexpected '{' in field name",
          field_name |-> <<>>, next |-> i]
    ELSE IF s[i] = "}"
    THEN [reason |-> "", field_name |-> SubSeq(s, start, i - 1), next |-> i + 1]
    ELSE ParseField(s, start, i + 1)

\* Mutant of Literal: the slice ends one token early.
LiteralShort(s, i, j) == SubSeq(s, i, j - 1)

\* The literal text s[i..j] in front of a field, an escape or the end.
Literal(s, i, j) == SubSeq(s, i, j)

ParsedItem(literal, has_field, field_name) ==
    [literal |-> literal, has_field |-> has_field, field_name |-> field_name]

RECURSIVE Parse(_, _, _)
\* Formatter().parse(s): the (literal_text, field_name) pairs of s from i on,
\* or the reason of the ValueError it raises.
Parse(s, i, items) ==
    IF i > Len(s) THEN [reason |-> "", items |-> items]
    ELSE LET j == FindBrace(s, i) IN
        IF j > Len(s)
        THEN [reason |-> "",
              items |-> Append(items, ParsedItem(Literal(s, i, Len(s)), FALSE, <<>>))]
        ELSE IF s[j] = "}" /\ (j = Len(s) \/ ~IsEscape(s, j))
        THEN [reason |-> "Single '}' encountered in format string", items |-> <<>>]
        ELSE IF j = Len(s)
        THEN [reason |-> "Single '{' encountered in format string", items |-> <<>>]
        ELSE IF IsEscape(s, j)
        THEN Parse(s, j + 2,
                   Append(items, ParsedItem(Literal(s, i, j), FALSE, <<>>)))
        ELSE LET f == ParseField(s, j + 1, j + 1) IN
            IF f.reason # "" THEN [reason |-> f.reason, items |-> <<>>]
            ELSE Parse(s, f.next,
                       Append(items, ParsedItem(Literal(s, i, j - 1), TRUE, f.field_name)))

Digit == <<"0", "1", "2", "3", "4", "5", "6", "7", "8", "9">>

RECURSIVE Digits(_)
\* str(n) of a non-negative int.
Digits(n) ==
    IF n < 10 THEN <<Digit[n + 1]>>
    ELSE Digits(n \div 10) \o <<Digit[(n % 10) + 1]>>

\* format(value, ""): the textual form of a substituted value.
Str(v) == IF v.tag = "int" THEN Digits(v.num) ELSE v.text

\* The keys of kwargs spelled `name`.
KeysNamed(kwargs, name) ==
    {k \in Keys : Spell[k] = name /\ kwargs[k].tag # "absent"}

RECURSIVE VFormat(_, _, _, _)
\* Formatter.vformat: appends each literal and each looked-up field to
\* `result`, left to right; the first failing lookup raises.
VFormat(items, i, kwargs, result) ==
    IF i > Len(items) THEN Return(result, <<>>)
    ELSE LET it == items[i]
             lit == result \o it.literal
         IN IF ~it.has_field THEN VFormat(items, i + 1, kwargs, lit)
            ELSE IF it.field_name = <<>>
            THEN Raise("IndexError", <<>>,
                       "tuple index out of range",
                       PartialText(lit))
            ELSE IF KeysNamed(kwargs, it.field_name) = {}
            THEN Raise("KeyError", it.field_name, "", PartialText(lit))
            ELSE VFormat(items, i + 1, kwargs,
                         lit \o Str(kwargs[CHOOSE k \in KeysNamed(kwargs, it.field_name) : TRUE]))

\* PromptTemplate.from_template(template_string).format(**kwargs)
PromptTemplateFormat(template_string, kwargs) ==
    LET parsed == Parse(template_string, 1, <<>>) IN
    IF parsed.reason # ""
    THEN Raise("ValueError", <<>>, parsed.reason, PartialText(<<>>))
    ELSE VFormat(parsed.items, 1, kwargs, <<>>)

---------------------------------------------------------------------------
(* ChatPromptTemplate and MessagesPlaceholder, as the source uses them:    *)
(* from_messages on a list of message objects and placeholders, invoke on  *)
(* a dict.                                                                 *)

NoMessage == Message("", <<>>)

\* A message object handed to from_messages: kept as it is.
MessageTurn(message) ==
    [is_placeholder |-> FALSE, message |-> message,
     variable_name |-> "", n_messages |-> {}]

\* MessagesPlaceholder(variable_name=..., n_messages=...); n_messages is
\* {} for None and {n} for a positive int n.
MessagesPlaceholder(variable_name, n_messages) ==
    [is_placeholder |-> TRUE, message |-> NoMessage,
     variable_name |-> variable_name, n_messages |-> n_messages]

\* ChatPromptTemplate.input_variables: message objects declare none.
InputVariables(template) ==
    {template[i].variable_name :
        i \in {j \in 1..Len(template) : template[j].is_placeholder}}

\* convert_to_messages on one item: a message object is kept, a str
\* becomes a human message.
ConvertToMessage(item) ==
    IF item.kind = "str" THEN HumanMessage(item.content) ELSE item

ConvertToMessages(items) ==
    [i \in 1..Len(items) |-> ConvertToMessage(items[i])]

\* Mutant of LastN: value[:n], the oldest n.
FirstN(value, n) ==
    IF n >= Len(value) THEN value ELSE SubSeq(value, 1, n)

\* value[-n:] for n >= 1.
LastN(value, n) ==
    IF n >= Len(value) THEN value
    ELSE SubSeq(value, Len(value) - n + 1, Len(value))

\* Mutant of PlaceholderFormatMessages: no isinstance check, a scalar is
\* taken as one human message.
PlaceholderNoTypeCheck(turn, kwargs) ==
    LET value == kwargs[turn.variable_name] IN
    IF value.tag = "absent"
    THEN Raise("KeyError", Spell[turn.variable_name], "", PartialMessages(<<>>))
    ELSE IF value.tag # "list"
    THEN Return(<<>>, <<HumanMessage(Str(value))>>)
    ELSE Return(<<>>, ConvertToMessages(value.items))

\* MessagesPlaceholder.format_messages(**kwargs)
PlaceholderFormatMessages(turn, kwargs) ==
    LET value == kwargs[turn.variable_name] IN
    IF value.tag = "absent"
    THEN Raise("KeyError", Spell[turn.variable_name], "", PartialMessages(<<>>))
    ELSE IF value.tag # "list"
    THEN Raise("ValueError", Spell[turn.variable_name],
               "should be a list of base messages", PartialMessages(<<>>))
    ELSE LET converted == ConvertToMessages(value.items) IN
         IF turn.n_messages # {}
         THEN Return(<<>>, LastN(converted, CHOOSE n \in turn.n_messages : TRUE))
         ELSE Return(<<>>, converted)

\* Mutant of InitialResult: the list of the previous call is reused.
LeakedResult == last.ret.messages

\* result = [] at the start of format_messages.
InitialResult == <<>>

\* Mutant of Extend: the new messages are put in front.
ExtendFront(result, messages) == messages \o result

\* result.extend(messages)
Extend(result, messages) == result \o messages

RECURSIVE FormatMessages(_, _, _, _)
\* ChatPromptTemplate.format_messages: the turns in declared order, a
\* message object as it is, a placeholder by what it resolves to.
FormatMessages(template, i, kwargs, result) ==
    IF i > Len(template) THEN Return(<<>>, result)
    ELSE IF ~template[i].is_placeholder
    THEN FormatMessages(template, i + 1, kwargs,
                        Extend(result, <<template[i].message>>))
    ELSE LET r == PlaceholderFormatMessages(template[i], kwargs) IN
         IF r.status # "ok"
         THEN Raise(r.status, r.name, r.reason, PartialMessages(result))
         ELSE FormatMessages(template, i + 1, kwargs, Extend(result, r.messages))

\* ChatPromptTemplate.invoke(input).messages: the input is validated
\* against input_variables, then formatted.
Invoke(template, input) ==
    LET missing == {k \in InputVariables(template) : input[k].tag = "absent"} IN
    IF missing # {}
    THEN Raise("KeyError", Spell[CHOOSE k \in missing : TRUE],
               "Input to ChatPromptTemplate is missing variables",
               PartialMessages(<<>>))
    ELSE FormatMessages(template, 1, input, InitialResult)

---------------------------------------------------------------------------
(* The calls.  `pending` is a call the caller is about to make, `last` the *)
(* latest call made with what it gave the caller, `seen` an earlier call   *)
(* the caller kept.                                                        *)

\* The arguments of a call: template_string, system_message, human_message,
\* history, current_question, n_messages (of the placeholder), variables.
Args(ts, sm, hm, history, cq, n_messages, variables) ==
    [template_string |-> ts, system_message |-> sm, human_message |-> hm,
     history |-> history, current_question |-> cq, n_messages |-> n_messages,
     variables |-> variables]

NoArgs == Args(<<>>, <<>>, <<>>, Absent, <<>>, {}, NoVariables)

Call(op, args, template, ret) ==
    [op |-> op, args |-> args, template |-> template, ret |-> ret]

NoCall == Call("none", NoArgs, <<>>, Return(<<>>, <<>>))

\* create_simple_prompt(template_string, **kwargs)
create_simple_prompt(a) ==
    Call("create_simple_prompt", a, <<>>,
                    PromptTemplateFormat(a.template_string, a.variables))

\* create_chat_prompt(system_message, human_message, variables)
create_chat_prompt(a) ==
    LET template == <<MessageTurn(SystemMessage(a.system_message)),
                      MessageTurn(HumanMessage(a.human_message))>>
    IN  Call("create_chat_prompt", a, template,
                     Invoke(template, a.variables))

\* create_conversation_with_history(system_message, history, current_question)
create_conversation_with_history(a) ==
    LET template == <<MessageTurn(SystemMessage(a.system_message)),
                      MessagesPlaceholder("history", {}),
                      MessageTurn(HumanMessage(<<"{", "question", "}">>))>>
        input == [NoVariables EXCEPT !["history"] = a.history,
                                     !["question"] = Text(a.current_question)]
    IN  Call("create_conversation_with_history", a, template,
                     Invoke(template, input))

\* single_turn_chat(), its invoke argument generalised to any mapping.
single_turn_chat(a) ==
    LET template ==
            <<MessageTurn(SystemMessage(<<"You are a helpful AI assistant.">>)),
              MessageTurn(HumanMessage(<<"Tell me a joke about ", "{", "topic", "}", ".">>))>>
    IN  Call("single_turn_chat", a, template, Invoke(template, a.variables))

\* customer_support_chat(), its invoke argument generalised to any mapping.
customer_support_chat(a) ==
    LET template ==
            <<MessageTurn(SystemMessage(
                  <<"You are a customer support agent for ", "{", "company", "}", ".">>)),
              MessageTurn(HumanMessage(
                  <<"Hi, I have an issue with ", "{", "product", "}", ".">>)),
              MessageTurn(AIMessage(
                  <<"I'm sorry to hear that. Can you describe the issue?">>)),
              MessageTurn(HumanMessage(<<"The issue is ", "{", "issue", "}", ".">>))>>
    IN  Call("customer_support_chat", a, template,
                     Invoke(template, a.variables))

\* conversation_with_history(), its invoke argument generalised to any mapping.
conversation_with_history(a) ==
    LET template ==
            <<MessageTurn(SystemMessage(<<"You are a helpful assistant.">>)),
              MessagesPlaceholder("history", {}),
              MessageTurn(HumanMessage(<<"{", "question", "}">>))>>
    IN  Call("conversation_with_history", a, template,
                     Invoke(template, a.variables))

\* limited_history_conversation(), its invoke argument generalised to any
\* mapping and its n_messages=2 to any positive int.
limited_history_conversation(a) ==
    LET template ==
            <<MessageTurn(SystemMessage(<<"You are a helpful assistant.">>)),
              MessagesPlaceholder("history", a.n_messages),
              MessageTurn(HumanMessage(<<"{", "question", "}">>))>>
    IN  Call("limited_history_conversation", a, template,
                     Invoke(template, a.variables))

---------------------------------------------------------------------------
(* The inputs the calls are made with.                                     *)

Chars == {"{", "}", "x", "a"}

SimpleKwargs ==
    Mappings({"x"}, [k \in {"x"} |->
        {Absent, Text(<<"v">>), Text(<<"{", "a", "}">>), Num(42)}])

SimplePromptArgs(template_string, kwargs) ==
    Args(template_string, <<>>, <<>>, Absent, <<>>, {}, kwargs)

ChatTemplates ==
    {<<"You are a helpful AI assistant.">>,
     <<"Tell me a joke about ", "{", "topic", "}", ".">>,
     <<"Tell me about your day.">>,
     <<"{">>}

TopicVariables ==
    Mappings({"topic"}, [k \in {"topic"} |->
        {Absent, Text(<<"programmers">>), Num(42)}])

ChatPromptArgs(system_message, human_message, variables) ==
    Args(<<>>, system_message, human_message, Absent, <<>>, {}, variables)

HistoryItems ==
    {HumanMessage(<<"What's 5 + 2?">>),
     AIMessage(<<"5 + 2 is 7.">>),
     HumanMessage(<<"Now multiply that by 4.">>),
     AIMessage(<<"7 * 4 is 28.">>),
     BareStr(<<"hi">>)}

\* What a caller may hand over as a history: a list, or a scalar.
HistoryValues(n) ==
    {List(h) : h \in SeqsUpTo(HistoryItems, n)} \cup {Text(<<"What's 5 + 2?">>), Num(42)}

Questions == {<<"What's the square root of that?">>, <<"{", "topic", "}">>}

SystemMessages == {<<"You are a helpful assistant.">>, <<"{", "topic", "}">>}

HistoryCallArgs(system_message, history, current_question) ==
    Args(<<>>, system_message, <<>>, history, current_question, {}, NoVariables)

\* The invoke argument of an example: any mapping of its variables.
ExampleArgs(n_messages, variables) ==
    Args(<<>>, <<>>, <<>>, Absent, <<>>, n_messages, variables)

CustomerSupportVariables ==
    Mappings({"company", "product", "issue"},
             [company |-> {Absent, Text(<<"TechCorp">>)},
              product |-> {Absent, Text(<<"smartphone">>)},
              issue |-> {Absent, Text(<<"it won't turn on">>)}])

HistoryVariables(history, question) ==
    [NoVariables EXCEPT !["history"] = history, !["question"] = question]

QuestionValues == {Absent, Text(<<"What's the square root of that?">>)}

Pending(op, a) == Call(op, a, <<>>, Return(<<>>, <<>>))

---------------------------------------------------------------------------
(* Spec: the caller makes one call, with any of the inputs.                *)

Init ==
    /\ last = NoCall
    /\ seen = NoCall
    /\ \/ \E t \in SeqsUpTo(Chars, MaxLen), kw \in SimpleKwargs :
            pending = Pending("create_simple_prompt", SimplePromptArgs(t, kw))
       \/ \E s \in ChatTemplates, h \in ChatTemplates, v \in TopicVariables :
            pending = Pending("create_chat_prompt", ChatPromptArgs(s, h, v))
       \/ \E s \in SystemMessages, h \in HistoryValues(MaxHistory), q \in Questions :
            pending = Pending("create_conversation_with_history",
                              HistoryCallArgs(s, h, q))
       \/ \E v \in TopicVariables :
            pending = Pending("single_turn_chat", ExampleArgs({}, v))
       \/ \E v \in CustomerSupportVariables :
            pending = Pending("customer_support_chat", ExampleArgs({}, v))
       \/ \E h \in HistoryValues(MaxHistory) \cup {Absent}, q \in QuestionValues :
            pending = Pending("conversation_with_history",
                              ExampleArgs({}, HistoryVariables(h, q)))
       \/ \E n \in 1..MaxLimit, h \in HistoryValues(MaxHistory) \cup {Absent},
             q \in QuestionValues :
            pending = Pending("limited_history_conversation",
                              ExampleArgs({n}, HistoryVariables(h, q)))

Ready(op) == last = NoCall /\ pending.op = op

CreateSimplePrompt ==
    /\ Ready("create_simple_prompt")
    /\ last' = create_simple_prompt(pending.args)
    /\ UNCHANGED <<pending, seen>>

CreateChatPrompt ==
    /\ Ready("create_chat_prompt")
    /\ last' = create_chat_prompt(pending.args)
    /\ UNCHANGED <<pending, seen>>

CreateConversationWithHistory ==
    /\ Ready("create_conversation_with_history")
    /\ last' = create_conversation_with_history(pending.args)
    /\ UNCHANGED <<pending, seen>>

SingleTurnChat ==
    /\ Ready("single_turn_chat")
    /\ last' = single_turn_chat(pending.args)
    /\ UNCHANGED <<pending, seen>>

CustomerSupportChat ==
    /\ Ready("customer_support_chat")
    /\ last' = customer_support_chat(pending.args)
    /\ UNCHANGED <<pending, seen>>

ConversationWithHistory ==
    /\ Ready("conversation_with_history")
    /\ last' = conversation_with_history(pending.args)
    /\ UNCHANGED <<pending, seen>>

LimitedHistoryConversation ==
    /\ Ready("limited_history_conversation")
    /\ last' = limited_history_conversation(pending.args)
    /\ UNCHANGED <<pending, seen>>

Next ==
    \/ CreateSimplePrompt
    \/ CreateChatPrompt
    \/ CreateConversationWithHistory
    \/ SingleTurnChat
    \/ CustomerSupportChat
    \/ ConversationWithHistory
    \/ LimitedHistoryConversation

Spec == Init /\ [][Next]_vars

---------------------------------------------------------------------------
(* SpecCalls: the caller makes call after call, and may keep one earlier   *)
(* call to compare a later one with.                                       *)

InitCalls ==
    /\ pending = NoCall
    /\ last = NoCall
    /\ seen = NoCall

\* The call before the one being made may be kept, once.
Keep == IF seen = NoCall THEN {seen, last} ELSE {seen}

AgainCreateChatPrompt ==
    /\ \E h \in ChatTemplates, v \in TopicVariables :
           last' = create_chat_prompt(
                       ChatPromptArgs(<<"You are a helpful AI assistant.">>, h, v))
    /\ seen' \in Keep
    /\ UNCHANGED pending

AgainCreateConversationWithHistory ==
    /\ \E h \in HistoryValues(MaxCallHistory), q \in Questions :
           last' = create_conversation_with_history(
                       HistoryCallArgs(<<"You are a helpful assistant.">>, h, q))
    /\ seen' \in Keep
    /\ UNCHANGED pending

AgainSingleTurnChat ==
    /\ \E v \in TopicVariables : last' = single_turn_chat(ExampleArgs({}, v))
    /\ seen' \in Keep
    /\ UNCHANGED pending

NextCalls ==
    \/ AgainCreateChatPrompt
    \/ AgainCreateConversationWithHistory
    \/ AgainSingleTurnChat

SpecCalls == InitCalls /\ [][NextCalls]_vars

---------------------------------------------------------------------------
(* What the claims speak of.                                               *)

Made == last.op # "none"

IsRender == last.op = "create_simple_prompt"

\* The calls whose template holds message turns only.
MessageOnlyOps == {"create_chat_prompt", "single_turn_chat", "customer_support_chat"}

\* The calls whose template is [system, history placeholder, human].
HistoryOps ==
    {"create_conversation_with_history", "conversation_with_history",
     "limited_history_conversation"}

\* The variable mapping a call resolves names against.
VariablesOf(c) ==
    IF c.op = "create_conversation_with_history"
    THEN [NoVariables EXCEPT !["history"] = c.args.history,
                             !["question"] = Text(c.args.current_question)]
    ELSE c.args.variables

HistoryOf(c) == VariablesOf(c)["history"]

AllMessages(items) == \A i \in 1..Len(items) : items[i].kind = "message"

\* The messages between the first and the last message of the output.
InsertedRun(c) == SubSeq(c.ret.messages, 2, Len(c.ret.messages) - 1)

\* The template parses, names a variable in every field, and every name
\* it references is a key of the mapping.
AllReferencedPresent(t, variables) ==
    LET p == Parse(t, 1, <<>>) IN
    /\ p.reason = ""
    /\ \A k \in 1..Len(p.items) :
           p.items[k].has_field => KeysNamed(variables, p.items[k].field_name) # {}

\* The names the template references that are no key of the mapping.
AbsentNames(t, variables) ==
    LET p == Parse(t, 1, <<>>) IN
    {p.items[k].field_name :
        k \in {n \in 1..Len(p.items) :
                  /\ p.items[n].has_field
                  /\ KeysNamed(variables, p.items[n].field_name) = {}}}

\* The template parses, names a variable in every field, and references
\* a name that is no key of the mapping.
ReferencesAbsent(t, variables) ==
    LET p == Parse(t, 1, <<>>) IN
    /\ p.reason = ""
    /\ \A k \in 1..Len(p.items) : p.items[k].has_field => p.items[k].field_name # <<>>
    /\ AbsentNames(t, variables) # {}

BraceFree(t) == \A i \in 1..Len(t) : t[i] \notin {"{", "}"}

RECURSIVE EscapesOnlyFrom(_, _)
\* From i on, every brace of t is one of a doubled pair.
EscapesOnlyFrom(t, i) ==
    IF i > Len(t) THEN TRUE
    ELSE IF t[i] \notin {"{", "}"} THEN EscapesOnlyFrom(t, i + 1)
    ELSE i < Len(t) /\ t[i + 1] = t[i] /\ EscapesOnlyFrom(t, i + 2)

RECURSIVE Collapsed(_, _)
\* t from i on with every doubled brace replaced by a single one.
Collapsed(t, i) ==
    IF i > Len(t) THEN <<>>
    ELSE IF t[i] \in {"{", "}"} THEN <<t[i]>> \o Collapsed(t, i + 2)
    ELSE <<t[i]>> \o Collapsed(t, i + 1)

RECURSIVE WellFormedFrom(_, _, _)
\* The brace grammar: outside a field a brace is doubled or opens a field;
\* inside a field "}" closes it and "{" is not allowed; no field is left open.
WellFormedFrom(t, i, open) ==
    IF i > Len(t) THEN ~open
    ELSE IF open
    THEN IF t[i] = "{" THEN FALSE
         ELSE WellFormedFrom(t, i + 1, t[i] # "}")
    ELSE IF t[i] \notin {"{", "}"} THEN WellFormedFrom(t, i + 1, FALSE)
    ELSE IF i < Len(t) /\ t[i + 1] = t[i] THEN WellFormedFrom(t, i + 2, FALSE)
    ELSE t[i] = "{" /\ WellFormedFrom(t, i + 1, TRUE)

MessageTurns(c) == {i \in 1..Len(c.template) : ~c.template[i].is_placeholder}

\* The number of output messages the history placeholder accounts for.
RunLen(c) == Len(c.ret.messages) - Cardinality(MessageTurns(c))

\* The number of output messages that come before the output of turn i.
Offset(c, i) ==
    Cardinality({j \in MessageTurns(c) : j < i})
    + (IF \E j \in 1..(i - 1) : c.template[j].is_placeholder THEN RunLen(c) ELSE 0)

---------------------------------------------------------------------------
(* The claims.                                                             *)

\* C1: assembling a conversation from text turns substitutes the variables
\* into every turn: when the mapping holds every referenced name, each
\* output message has the role of its turn and the turn's template with
\* every {name} replaced by the textual form of variables[name].
C1_SubstitutesEveryTurn ==
    (/\ last.op \in MessageOnlyOps
     /\ \A i \in 1..Len(last.template) :
            AllReferencedPresent(last.template[i].message.content, VariablesOf(last)))
    => /\ last.ret.status = "ok"
       /\ Len(last.ret.messages) = Len(last.template)
       /\ \A i \in 1..Len(last.template) :
              /\ last.ret.messages[i].role = last.template[i].message.role
              /\ last.ret.messages[i].content =
                     PromptTemplateFormat(last.template[i].message.content,
                                          VariablesOf(last)).text

\* What the code does instead of C1: a message object handed to
\* from_messages reaches the output as it is, whatever the mapping holds.
MessageObjectsPassThrough ==
    last.op \in MessageOnlyOps
    => /\ last.ret.status = "ok"
       /\ last.ret.messages =
              [i \in 1..Len(last.template) |-> last.template[i].message]

\* C2: the output keeps the declared order: the message of every text turn
\* stands where its turn stands, and the history messages are one
\* contiguous run of the history at the place of the placeholder, after
\* the turns declared before it and before the turns declared after it.
C2_OrderPreserved ==
    (last.op \in MessageOnlyOps \cup HistoryOps /\ last.ret.status = "ok")
    => LET out == last.ret.messages
           conv == ConvertToMessages(HistoryOf(last).items)
           run == RunLen(last)
       IN /\ run >= 0
          /\ run <= Len(conv)
          /\ \A i \in 1..Len(last.template) :
                 IF ~last.template[i].is_placeholder
                 THEN /\ Offset(last, i) + 1 \in 1..Len(out)
                      /\ out[Offset(last, i) + 1] = last.template[i].message
                 ELSE \E s \in 0..(Len(conv) - run) :
                          SubSeq(out, Offset(last, i) + 1, Offset(last, i) + run)
                              = SubSeq(conv, s + 1, s + run)

C2_Witness ==
    /\ last.op = "conversation_with_history"
    /\ last.ret.status = "ok"
    /\ Len(HistoryOf(last).items) = 3
    /\ Len(last.ret.messages) = 5
    /\ last.ret.messages[1].role = "system"
    /\ last.ret.messages[2] = HistoryOf(last).items[1]
    /\ last.ret.messages[2] # HistoryOf(last).items[3]
    /\ last.ret.messages[5].role = "human"

\* C3: a placeholder with limit k inserts exactly the last k messages of a
\* history of n > k messages, in their order, and the whole history when
\* n <= k; with no limit it inserts the whole history.
C3_KeepsNewest ==
    (/\ last.op \in HistoryOps
     /\ last.ret.status = "ok"
     /\ AllMessages(HistoryOf(last).items))
    => LET h == HistoryOf(last).items
           n == Len(h)
           limit == last.template[2].n_messages
       IN /\ \A k \in limit : n > k => InsertedRun(last) = SubSeq(h, n - k + 1, n)
          /\ \A k \in limit : n <= k => InsertedRun(last) = h
          /\ limit = {} => InsertedRun(last) = h

C3_Witness ==
    /\ last.op = "limited_history_conversation"
    /\ last.args.n_messages = {2}
    /\ HistoryOf(last).items =
           <<HumanMessage(<<"What's 5 + 2?">>), AIMessage(<<"5 + 2 is 7.">>),
             HumanMessage(<<"Now multiply that by 4.">>), AIMessage(<<"7 * 4 is 28.">>)>>
    /\ last.ret.status = "ok"
    /\ InsertedRun(last) =
           <<HumanMessage(<<"Now multiply that by 4.">>), AIMessage(<<"7 * 4 is 28.">>)>>

\* C4: a render or assemble call whose template references a variable
\* name absent from the mapping fails with MissingVariable (KeyError)
\* naming that variable, and returns no result.
C4_MissingVariableFails ==
    /\ (IsRender /\ ReferencesAbsent(last.args.template_string, VariablesOf(last)))
       => /\ last.ret.status = "KeyError"
          /\ last.ret.name \in AbsentNames(last.args.template_string, VariablesOf(last))
    /\ (/\ last.op \in MessageOnlyOps
        /\ \A i \in 1..Len(last.template) :
               WellFormedFrom(last.template[i].message.content, 1, FALSE)
        /\ \E i \in 1..Len(last.template) :
               ReferencesAbsent(last.template[i].message.content, VariablesOf(last)))
       => /\ last.ret.status = "KeyError"
          /\ \E i \in 1..Len(last.template) :
                 last.ret.name \in
                     AbsentNames(last.template[i].message.content, VariablesOf(last))
          /\ last.ret.messages = <<>>

\* The half of C4 the code keeps: create_simple_prompt on a template that
\* references an absent name raises KeyError naming an absent name.
RenderMissingVariableFails ==
    (IsRender /\ ReferencesAbsent(last.args.template_string, VariablesOf(last)))
    => /\ last.ret.status = "KeyError"
       /\ last.ret.name \in AbsentNames(last.args.template_string, VariablesOf(last))
       /\ last.ret.text = <<>>

\* C5, as claimed: resolving a history placeholder fails with
\* MissingVariable when its name is absent from the mapping and with
\* TypeMismatch when the value is not a sequence of messages; in neither
\* case is the value spliced into the output.
C5_HistoryMustBeMessages ==
    last.op \in HistoryOps
    => /\ HistoryOf(last).tag = "absent"
          => /\ last.ret.status = "KeyError"
             /\ last.ret.name = <<"history">>
             /\ last.ret.messages = <<>>
       /\ (/\ HistoryOf(last).tag # "absent"
           /\ ~(HistoryOf(last).tag = "list" /\ AllMessages(HistoryOf(last).items)))
          => /\ last.ret.status = "ValueError"
             /\ last.ret.name = <<"history">>
             /\ last.ret.messages = <<>>

\* C5, amended: resolving a history placeholder fails with MissingVariable
\* when its name is absent from the mapping and with TypeMismatch when the
\* value is not a list; in neither case is the value spliced into the
\* output.  A list is accepted also when items of it are bare text: such
\* an item is spliced in as a human message.
C5_HistoryMustBeList ==
    last.op \in HistoryOps
    => /\ HistoryOf(last).tag = "absent"
          => /\ last.ret.status = "KeyError"
             /\ last.ret.name = <<"history">>
             /\ last.ret.messages = <<>>
       /\ HistoryOf(last).tag \notin {"absent", "list"}
          => /\ last.ret.status = "ValueError"
             /\ last.ret.name = <<"history">>
             /\ last.ret.reason = "should be a list of base messages"
             /\ last.ret.messages = <<>>
       /\ HistoryOf(last).tag = "list"
          => /\ last.ret.status = "ok"
             /\ \A i \in 1..Len(InsertedRun(last)) :
                    \E j \in 1..Len(HistoryOf(last).items) :
                        LET item == HistoryOf(last).items[j] IN
                        /\ InsertedRun(last)[i].kind = "message"
                        /\ InsertedRun(last)[i].content = item.content
                        /\ InsertedRun(last)[i].role =
                               (IF item.kind = "str" THEN "human" ELSE item.role)

C5_Witness ==
    /\ last.op = "create_conversation_with_history"
    /\ HistoryOf(last).tag = "str"
    /\ last.ret.status = "ValueError"
    /\ last.ret.messages = <<>>

C8_NoPlaceholderUnchanged ==
    (/\ IsRender
     /\ VariablesOf(last) = NoVariables
     /\ EscapesOnlyFrom(last.args.template_string, 1))
    => /\ last.ret.status = "ok"
       /\ last.ret.text = last.args.template_string

\* C8, amended: render(template, {}) returns every template without any
\* brace unchanged; a template whose only braces are doubled braces is
\* rendered too, but shorter than it was: not unchanged.
C8_BraceFreeUnchanged ==
    (IsRender /\ VariablesOf(last) = NoVariables)
    => /\ BraceFree(last.args.template_string)
          => /\ last.ret.status = "ok"
             /\ last.ret.text = last.args.template_string
       /\ (/\ EscapesOnlyFrom(last.args.template_string, 1)
           /\ ~BraceFree(last.args.template_string))
          => /\ last.ret.status = "ok"
             /\ Len(last.ret.text) < Len(last.args.template_string)

C8_Witness ==
    /\ IsRender
    /\ VariablesOf(last) = NoVariables
    /\ last.args.template_string = <<"a", "x", "a">>
    /\ last.ret.status = "ok"
    /\ last.ret.text = <<"a", "x", "a">>

\* C9: in render a doubled brace is an escape: "{{" renders as one "{"
\* and "}}" as one "}", the name between escaped braces is not looked up
\* (its absence raises nothing), and a template with an unmatched single
\* brace fails with MalformedTemplate (ValueError), as no other does.
C9_DoubledBraceEscapes ==
    IsRender
    => /\ EscapesOnlyFrom(last.args.template_string, 1)
          => /\ last.ret.status = "ok"
             /\ last.ret.text = Collapsed(last.args.template_string, 1)
       /\ ~WellFormedFrom(last.args.template_string, 1, FALSE)
          => /\ last.ret.status = "ValueError"
             /\ last.ret.text = <<>>
       /\ WellFormedFrom(last.args.template_string, 1, FALSE)
          => last.ret.status # "ValueError"

C9_Witness ==
    /\ IsRender
    /\ last.args.template_string = <<"{", "{", "x", "}", "}">>
    /\ VariablesOf(last)["x"].tag = "absent"
    /\ last.ret.status = "ok"
    /\ last.ret.text = <<"{", "x", "}">>

\* C10: create_conversation_with_history returns one system message with
\* content system_message, then the messages of history unchanged and in
\* order, then one human message whose content is current_question:
\* len(history) + 2 messages.
C10_ConversationWithHistory ==
    (/\ last.op = "create_conversation_with_history"
     /\ HistoryOf(last).tag = "list"
     /\ AllMessages(HistoryOf(last).items))
    => /\ last.ret.status = "ok"
       /\ Len(last.ret.messages) = Len(HistoryOf(last).items) + 2
       /\ last.ret.messages =
              <<SystemMessage(last.args.system_message)>>
              \o HistoryOf(last).items
              \o <<HumanMessage(last.args.current_question)>>

\* What the code does instead of C10: the last message is the message
\* object HumanMessage("{question}") as it is.
QuestionNotSubstituted ==
    (/\ last.op = "create_conversation_with_history"
     /\ HistoryOf(last).tag = "list")
    => /\ last.ret.status = "ok"
       /\ last.ret.messages =
              <<SystemMessage(last.args.system_message)>>
              \o ConvertToMessages(HistoryOf(last).items)
              \o <<HumanMessage(<<"{", "question", "}">>)>>

====
